---- MODULE Spec2Model ----
(***************************************************************************)
(* Model of velodyne_pointcloud::Convert (convert.cc): the scan segmenter  *)
(* with its carry-over buffer, the demand-gated composition of the four    *)
(* point-cloud views, and the parameter callback.                          *)
(*                                                                         *)
(* Units: azimuths and phases are hundredths of a degree, scan_phase is in *)
(* thousandths of a degree (so that round(scan_phase*100) rounds),         *)
(* ranges and distances are decimetres, time stamps are decode indices.    *)
(***************************************************************************)
EXTENDS Integers, Sequences, FiniteSets, Bags, TLC

\* ---------------------------------------------------------------- bounds
\* Number of processScan cycles explored.
MaxCycles == 2
\* Longest freely generated packet batch (decoded points).
MaxBatchLen == 1
\* Number of lasers reported by the decoder (getNumLasers()).
NumLasers == 2

\* ------------------------------------------------------ program constants
FullTurn == 36000
HalfTurn == 18000
Uint16 == 65536
DefaultMinRange == 9
DefaultMaxRange == 1300
DefaultViewDirection == 0
DefaultViewWidth == 6283
DefaultNumPointsThreshold == 300
DefaultScanPhase == 0

Views == {"valid", "valid_extended", "invalid_near", "combined"}

\* ------------------------------------------------------------ sequences
Last(s) == s[Len(s)]
Front(s) == SubSeq(s, 1, Len(s) - 1)
Reverse(s) == [i \in 1..Len(s) |-> s[Len(s) + 1 - i]]
SeqToBag(s) == [x \in {s[i] : i \in 1..Len(s)} |-> Cardinality({i \in 1..Len(s) : s[i] = x})]
Azimuths(s) == [i \in 1..Len(s) |-> s[i].azimuth]

\* ------------------------------------------------------------- arithmetic
\* C's % truncates towards zero.
CMod(a, b) == IF a >= 0 THEN a % b ELSE -((-a) % b)
\* Conversion to uint16_t.
\* (variant: a signed 16-bit type, int16_t)
ToInt16(x) == IF x % Uint16 >= Uint16 \div 2 THEN (x % Uint16) - Uint16 ELSE x % Uint16
ToUint16(x) == x % Uint16
\* round(scan_phase * 100), scan_phase given in thousandths of a degree.
RoundHundredths(milli) == (milli + 5) \div 10
\* (variant: the factor 100 is missing, the phase is left in degrees)
PhaseInDegrees(phaseCfg) == ToUint16(RoundHundredths(phaseCfg) \div 100)
\* int phase = (uint16_t)round(config_.scan_phase*100);
Phase(phaseCfg) == ToUint16(RoundHundredths(phaseCfg))
\* uint16_t current_azimuth = (int)...azimuth;
\* uint16_t phase_diff = (36000 + current_azimuth - phase) % 36000;
\* (variant: azimuth and phase exchanged)
PhaseDiffSwapped(azimuth, phase) ==
  LET current_azimuth == ToUint16(azimuth)
  IN  ToUint16(CMod(FullTurn + phase - current_azimuth, FullTurn))
PhaseDiff(azimuth, phase) ==
  LET current_azimuth == ToUint16(azimuth)
  IN  ToUint16(CMod(FullTurn + current_azimuth - phase, FullTurn))

\* ------------------------------------------------------------- segmenter
\* Restoring the overflow buffer into the fresh scan: pushed back from the
\* last buffered point to the first.
\* (variant: the buffer is copied from its first point to its last)
RestoreOverflowUnreversed(overflow) == overflow
\* (variant: the restoring loop stops one element early)
RestoreOverflowSkipsFirst(overflow) ==
  IF Len(overflow) = 0 THEN <<>> ELSE Reverse(Tail(overflow))
RestoreOverflow(overflow) == Reverse(overflow)

\* The loop  while (phase_diff < 18000 && points.size() > 0) { ... }.
\* phase_diff is the loop variable; after pop_back() the azimuth of back() is
\* read even when the buffer has just been emptied: that read returns
\* whatever lies before the storage, here the value garbage.
RECURSIVE DeferLoop(_, _, _, _, _)
\* (variant: phase_diff <= 18000)
DeferLoopInclusive(points, overflow, phase_diff, phase, garbage) ==
  IF phase_diff <= HalfTurn /\ Len(points) > 0
  THEN LET popped == Front(points)
           current_azimuth == IF Len(popped) > 0 THEN Last(popped).azimuth ELSE garbage
       IN  DeferLoop(popped, Append(overflow, Last(points)),
                     PhaseDiff(current_azimuth, phase), phase, garbage)
  ELSE [points |-> points, overflow |-> overflow, read_empty |-> Len(points) = 0]
\* (variant: "if" for "while", at most one point is deferred)
DeferLoopOnce(points, overflow, phase_diff, phase, garbage) ==
  IF phase_diff < HalfTurn /\ Len(points) > 0 /\ Len(overflow) = 0
  THEN LET popped == Front(points)
           current_azimuth == IF Len(popped) > 0 THEN Last(popped).azimuth ELSE garbage
       IN  DeferLoop(popped, Append(overflow, Last(points)),
                     PhaseDiff(current_azimuth, phase), phase, garbage)
  ELSE [points |-> points, overflow |-> overflow, read_empty |-> Len(points) = 0]
DeferLoop(points, overflow, phase_diff, phase, garbage) ==
  IF phase_diff < HalfTurn /\ Len(points) > 0
  THEN LET popped == Front(points)
           current_azimuth == IF Len(popped) > 0 THEN Last(popped).azimuth ELSE garbage
       IN  DeferLoop(popped, Append(overflow, Last(points)),
                     PhaseDiff(current_azimuth, phase), phase, garbage)
  ELSE [points |-> points, overflow |-> overflow, read_empty |-> Len(points) = 0]

\* Lines 241-254: the whole "remove overflow points" block on the working
\* buffer points (restored overflow followed by the decoded batch).
Segment(points, phaseCfg, garbage) ==
  LET phase == Phase(phaseCfg)
  IN  IF Len(points) > 0
      THEN DeferLoop(points, <<>>, PhaseDiff(Last(points).azimuth, phase), phase, garbage)
      ELSE [points |-> points, overflow |-> <<>>, read_empty |-> FALSE]

\* Line 259: first_point_timestamp = points.front().time_stamp; front() of an
\* empty scan yields whatever the read finds, here garbage_stamp.
\* (variant: the stamp of the last point)
LastPointTimestamp(points, garbage_stamp) ==
  IF Len(points) = 0 THEN garbage_stamp ELSE Last(points).time_stamp
FirstPointTimestamp(points, garbage_stamp) ==
  IF Len(points) = 0 THEN garbage_stamp ELSE points[1].time_stamp

\* Lines 311-318: the combined cloud, the range-filtered points followed by
\* the near-invalid points.
\* (variant: near-invalid points first)
CombinedPointsInvalidFirst(valid, invalid_near) == invalid_near \o valid
CombinedPoints(valid, invalid_near) == valid \o invalid_near

\* ------------------------------------------------- external collaborators
\* RawData::unpack_all: appends the batch's points, in decode order, to the
\* scan; time stamps grow with the decode index.
Decode(batch, t0) ==
  [i \in 1..Len(batch) |->
     [azimuth |-> batch[i].azimuth, distance |-> batch[i].distance,
      ring |-> batch[i].ring, intensity |-> batch[i].intensity,
      time_stamp |-> t0 + i]]

\* extractValidPoints(scan, min_range, max_range): the range filter.
ExtractValidPoints(points, min_range, max_range) ==
  SelectSeq(points, LAMBDA p : min_range <= p.distance /\ p.distance <= max_range)

RECURSIVE GroupByRing(_, _, _)
GroupByRing(points, ring, num_lasers) ==
  IF ring >= num_lasers THEN <<>>
  ELSE SelectSeq(points, LAMBDA p : p.ring = ring) \o GroupByRing(points, ring + 1, num_lasers)

\* sortZeroIndex(scan, num_lasers): stable grouping by ring index.
SortZeroIndex(points, num_lasers) == GroupByRing(points, 0, num_lasers)

\* extractInvalidNearPointsFiltered(sorted, invalid_intensity, num_lasers,
\* num_points_threshold): the no-return points of a ring survive when their
\* intensity reaches the ring's threshold and the ring has at least
\* num_points_threshold of them.
IsInvalidNear(p, intensity_array) ==
  /\ p.distance = 0
  /\ p.ring + 1 \in DOMAIN intensity_array
  /\ p.intensity >= intensity_array[p.ring + 1]
ExtractInvalidNearPointsFiltered(points, intensity_array, num_lasers, threshold) ==
  SelectSeq(points, LAMBDA p :
    /\ IsInvalidNear(p, intensity_array)
    /\ Cardinality({i \in 1..Len(points) :
          points[i].ring = p.ring /\ IsInvalidNear(points[i], intensity_array)}) >= threshold)

\* convert(): PointXYZIRADT -> PointXYZIR, the extended fields are dropped.
Convert(points) ==
  [i \in 1..Len(points) |-> [intensity |-> points[i].intensity, ring |-> points[i].ring]]

\* pcl::toROSMsg of a cloud.
Msg(points, stamp) ==
  [points |-> points, stamp |-> stamp, height |-> 1, width |-> Len(points)]

\* ------------------------------------------------------------------ inputs
InputPoints ==
  { [azimuth |-> 100, distance |-> 50, ring |-> 0, intensity |-> 10],
    [azimuth |-> 18000, distance |-> 0, ring |-> 1, intensity |-> 10],
    [azimuth |-> 35900, distance |-> 2000, ring |-> 0, intensity |-> 10] }

PointsAt(azimuths) ==
  [i \in 1..Len(azimuths) |->
     [azimuth |-> azimuths[i], distance |-> 50, ring |-> 0, intensity |-> 10]]

\* The batches of the specification's concrete scenarios, and a batch that
\* crosses azimuth 0 in its middle.
ScenarioAzimuths ==
  { <<100, 200, 35900, 35950>>, <<100, 200, 17999, 18500>>, <<17000, 17500, 17900>>,
    <<35900, 100, 18000>> }
ScenarioBatches == {PointsAt(a) : a \in ScenarioAzimuths}

Batches == ScenarioBatches \cup UNION {[1..n -> InputPoints] : n \in 0..MaxBatchLen}

\* scan_phase values (thousandths of a degree): 0 and 180 degrees.
ScanPhases == {0, 180000}

\* What reading from an empty vector can yield.
GarbageAzimuths == {0, 65535}
GarbageStamps == {0, 77}

\* ------------------------------------------------------------------- state
VARIABLES
  config,                  \* config_: min_range, max_range, view_direction, view_width, scan_phase
  num_points_threshold,    \* num_points_threshold_
  invalid_intensity_array, \* invalid_intensity_array_
  data,                    \* the decoder's parameters, set by data_->setParameters
  overflow_buffer,         \* _overflow_buffer.pc->points
  subscription,            \* per view: get_subscription_count() > 0
  pc,                      \* position of processScan
  scan_points,             \* scan_points_xyziradt.pc->points
  scan_stamp,              \* scan_points_xyziradt.pc->header.stamp
  scan_height,             \* scan_points_xyziradt.pc->height
  scan_width,              \* scan_points_xyziradt.pc->width
  valid_points,            \* valid_points_xyziradt->points
  valid_stamp,             \* valid_points_xyziradt->header.stamp
  invalid_near_points,     \* invalid_near_points_filtered_xyziradt->points
  published,               \* per view: the messages published in this cycle
  fault,                   \* "none", or what ended the process
  clock,                   \* number of points decoded so far
  cycles,                  \* number of processScan calls started
  decoded_all,             \* history: bag of all points decoded
  emitted_all,             \* history: bag of all points of closed scans
  cycle                    \* history of the current (or last) processScan call

vars ==
  << config, num_points_threshold, invalid_intensity_array, data, overflow_buffer,
     subscription, pc, scan_points, scan_stamp, scan_height, scan_width,
     valid_points, valid_stamp, invalid_near_points, published, fault, clock, cycles, decoded_all,
     emitted_all, cycle >>

configVars == << config, num_points_threshold, invalid_intensity_array, data >>
cloudVars ==
  << scan_points, scan_stamp, scan_height, scan_width, valid_points, valid_stamp,
     invalid_near_points >>
historyVars == << clock, cycles, decoded_all, emitted_all >>

NoCycle ==
  [ carry_in |-> <<>>, batch |-> <<>>, phase_cfg |-> DefaultScanPhase, raw_points |-> <<>>,
    segmented |-> FALSE, demand_start |-> {}, demand_changed |-> FALSE,
    ever_demand |-> FALSE, n_decode |-> 0, n_valid_filter |-> 0, n_sort |-> 0,
    n_invalid_filter |-> 0, read_back_empty |-> FALSE, read_front_empty |-> FALSE,
    params_start |-> [ min_range |-> DefaultMinRange, max_range |-> DefaultMaxRange,
                       invalid_intensity |-> <<>>,
                       num_points_threshold |-> DefaultNumPointsThreshold ] ]

Zeros(n) == [i \in 1..n |-> 0]
\* What the filters of a call starting now would read.
FilterParams ==
  [ min_range |-> data.min_range, max_range |-> data.max_range,
    invalid_intensity |-> invalid_intensity_array,
    num_points_threshold |-> num_points_threshold ]
NoPublication == [v \in Views |-> <<>>]

\* The constructor, scan_phase being declared with the value phaseCfg.
Construct(phaseCfg) ==
  /\ config = [ min_range |-> DefaultMinRange, max_range |-> DefaultMaxRange,
                view_direction |-> DefaultViewDirection, view_width |-> DefaultViewWidth,
                scan_phase |-> phaseCfg ]
  /\ num_points_threshold = DefaultNumPointsThreshold
  /\ invalid_intensity_array = Zeros(NumLasers)
  /\ data = [ min_range |-> DefaultMinRange, max_range |-> DefaultMaxRange,
              view_direction |-> DefaultViewDirection, view_width |-> DefaultViewWidth ]
  /\ overflow_buffer = <<>>
  /\ subscription = [v \in Views |-> FALSE]
  /\ pc = "idle"
  /\ scan_points = <<>>
  /\ scan_stamp = 0
  /\ scan_height = 0
  /\ scan_width = 0
  /\ valid_points = <<>>
  /\ valid_stamp = 0
  /\ invalid_near_points = <<>>
  /\ published = NoPublication
  /\ fault = "none"
  /\ clock = 0
  /\ cycles = 0
  /\ decoded_all = EmptyBag
  /\ emitted_all = EmptyBag
  /\ cycle = [NoCycle EXCEPT !.phase_cfg = phaseCfg]

\* The constructor with the declared defaults.
Init == Construct(DefaultScanPhase)

\* (variant: get_subscription_count() >= 0)
SubscribedAtLeastZero(views) == \E v \in views : subscription[v] \/ ~subscription[v]
Subscribed(views) == \E v \in views : subscription[v]
\* The views behind each gate of processScan.
SegmentViews == {"valid", "valid_extended", "invalid_near", "combined"}
\* (variant: the combined view is missing from the range filter's gate)
ValidViewsWithoutCombined == {"valid", "valid_extended"}
ValidViews == {"valid", "valid_extended", "combined"}
InvalidViews == {"invalid_near", "combined"}
Demand == {v \in Views : subscription[v]}

\* --------------------------------------------------------- subscriptions
\* A consumer of view v appears: get_subscription_count() becomes positive.
Subscribe(v) ==
  /\ fault = "none"
  /\ ~subscription[v]
  /\ subscription' = [subscription EXCEPT ![v] = TRUE]
  /\ cycle' = IF pc = "idle" THEN cycle
              ELSE [cycle EXCEPT !.demand_changed = TRUE, !.ever_demand = TRUE]
  /\ UNCHANGED << configVars, overflow_buffer, pc, cloudVars, published, fault, historyVars >>

\* The last consumer of view v disappears.
Unsubscribe(v) ==
  /\ fault = "none"
  /\ subscription[v]
  /\ subscription' = [subscription EXCEPT ![v] = FALSE]
  /\ cycle' = IF pc = "idle" THEN cycle ELSE [cycle EXCEPT !.demand_changed = TRUE]
  /\ UNCHANGED << configVars, overflow_buffer, pc, cloudVars, published, fault, historyVars >>

\* ------------------------------------------------------------ processScan
\* Lines 211-267: the gate on the four views and, behind it, restoring the
\* overflow buffer, decoding, segmenting and stamping the scan. Reading
\* points.front() of an empty scan (line 259) either faults or yields the
\* stamp garbage_stamp.
ProcessScanBegin(batch, garbage, crash, garbage_stamp) ==
  /\ fault = "none"
  /\ pc = "idle"
  /\ cycles < MaxCycles
  /\ cycles' = cycles + 1
  /\ valid_points' = <<>>
  /\ valid_stamp' = 0
  /\ invalid_near_points' = <<>>
  /\ published' = NoPublication
  /\ IF Subscribed(SegmentViews)
     THEN LET decoded == Decode(batch, clock)
              raw == RestoreOverflow(overflow_buffer) \o decoded
              seg == Segment(raw, config.scan_phase, garbage)
              empty == Len(seg.points) = 0
          IN  /\ overflow_buffer' = seg.overflow
              /\ scan_points' = seg.points
              /\ scan_stamp' = FirstPointTimestamp(seg.points, garbage_stamp)
              /\ scan_height' = 1
              /\ scan_width' = Len(seg.points)
              /\ fault' = IF empty /\ crash THEN "front_empty" ELSE "none"
              /\ pc' = IF empty /\ crash THEN "stamp" ELSE "valid_gate"
              /\ clock' = clock + Len(batch)
              /\ decoded_all' = decoded_all (+) SeqToBag(decoded)
              /\ emitted_all' = emitted_all (+) SeqToBag(seg.points)
              /\ cycle' = [NoCycle EXCEPT
                     !.carry_in = overflow_buffer, !.batch = decoded,
                     !.phase_cfg = config.scan_phase, !.raw_points = raw,
                     !.segmented = TRUE, !.demand_start = Demand,
                     !.ever_demand = Demand # {}, !.n_decode = 1,
                     !.read_back_empty = seg.read_empty, !.read_front_empty = empty,
                     !.params_start = FilterParams]
     ELSE /\ scan_points' = <<>>
          /\ scan_stamp' = 0
          /\ scan_height' = 0
          /\ scan_width' = 0
          /\ pc' = "valid_gate"
          /\ cycle' = [NoCycle EXCEPT !.carry_in = overflow_buffer,
                                      !.phase_cfg = cycle.phase_cfg,
                                      !.demand_start = Demand,
                                      !.ever_demand = Demand # {},
                                      !.params_start = FilterParams]
          /\ UNCHANGED << overflow_buffer, fault, clock, decoded_all, emitted_all >>
  /\ UNCHANGED << configVars, subscription >>

Publish(v, msg) == published' = [published EXCEPT ![v] = Append(published[v], msg)]

\* Lines 269-276: the range filter, behind the gate on valid, valid_extended
\* and combined.
ValidGate ==
  /\ fault = "none"
  /\ pc = "valid_gate"
  /\ IF Subscribed(ValidViews)
     THEN /\ valid_points' = ExtractValidPoints(scan_points, data.min_range, data.max_range)
          /\ valid_stamp' = scan_stamp
          /\ cycle' = [cycle EXCEPT !.n_valid_filter = cycle.n_valid_filter + 1]
          /\ pc' = "pub_valid"
     ELSE /\ pc' = "invalid_gate"
          /\ UNCHANGED << valid_points, valid_stamp, cycle >>
  /\ UNCHANGED << configVars, overflow_buffer, subscription, scan_points, scan_stamp,
                  scan_height, scan_width, invalid_near_points, published, fault,
                  historyVars >>

\* Lines 277-282.
PubValid ==
  /\ fault = "none"
  /\ pc = "pub_valid"
  /\ IF subscription["valid"]
     THEN Publish("valid", Msg(Convert(valid_points), valid_stamp))
     ELSE UNCHANGED published
  /\ pc' = "pub_ex"
  /\ UNCHANGED << configVars, overflow_buffer, subscription, cloudVars, fault,
                  historyVars, cycle >>

\* Lines 283-287.
PubEx ==
  /\ fault = "none"
  /\ pc = "pub_ex"
  /\ IF subscription["valid_extended"]
     THEN Publish("valid_extended", Msg(valid_points, valid_stamp))
     ELSE UNCHANGED published
  /\ pc' = "invalid_gate"
  /\ UNCHANGED << configVars, overflow_buffer, subscription, cloudVars, fault,
                  historyVars, cycle >>

\* Lines 290-298: ring sort and near-invalid filter, behind the gate on
\* invalid_near and combined.
InvalidGate ==
  /\ fault = "none"
  /\ pc = "invalid_gate"
  /\ IF Subscribed(InvalidViews)
     THEN /\ invalid_near_points' =
               ExtractInvalidNearPointsFiltered(
                 SortZeroIndex(scan_points, NumLasers), invalid_intensity_array,
                 NumLasers, num_points_threshold)
          /\ cycle' = [cycle EXCEPT !.n_sort = cycle.n_sort + 1,
                                    !.n_invalid_filter = cycle.n_invalid_filter + 1]
          /\ pc' = "pub_invalid"
     ELSE /\ pc' = "combined_gate"
          /\ UNCHANGED << invalid_near_points, cycle >>
  /\ UNCHANGED << configVars, overflow_buffer, subscription, scan_points, scan_stamp,
                  scan_height, scan_width, valid_points, valid_stamp, published, fault,
                  historyVars >>

\* Lines 299-305.
PubInvalid ==
  /\ fault = "none"
  /\ pc = "pub_invalid"
  /\ IF subscription["invalid_near"]
     THEN Publish("invalid_near", Msg(Convert(invalid_near_points), scan_stamp))
     ELSE UNCHANGED published
  /\ pc' = "combined_gate"
  /\ UNCHANGED << configVars, overflow_buffer, subscription, cloudVars, fault,
                  historyVars, cycle >>

\* Lines 308-326: the combined view; the call returns.
CombinedGate ==
  /\ fault = "none"
  /\ pc = "combined_gate"
  /\ IF subscription["combined"]
     THEN Publish("combined", Msg(CombinedPoints(valid_points, invalid_near_points), valid_stamp))
     ELSE UNCHANGED published
  /\ pc' = "idle"
  /\ UNCHANGED << configVars, overflow_buffer, subscription, cloudVars, fault,
                  historyVars, cycle >>

\* ---------------------------------------------------------- paramCallback
\* get_param(p, name, value): the parameter name is in the update.
HasParam(p, name) == name \in DOMAIN p

RangeViewNames == {"min_range", "max_range", "view_direction", "view_width"}

\* Lines 170-173: get_param(min_range) || get_param(max_range) || ...: the
\* evaluation stops at the first parameter found.
RangeViewUpdate(cfg, p) ==
  IF HasParam(p, "min_range") THEN [cfg EXCEPT !.min_range = p.min_range]
  ELSE IF HasParam(p, "max_range") THEN [cfg EXCEPT !.max_range = p.max_range]
  ELSE IF HasParam(p, "view_direction") THEN [cfg EXCEPT !.view_direction = p.view_direction]
  ELSE IF HasParam(p, "view_width") THEN [cfg EXCEPT !.view_width = p.view_width]
  ELSE cfg

\* Lines 190-193: a fresh array of num_lasers zeros, then .at(i) = values[i]
\* for every supplied value; .at() throws past the end, the values written
\* before the throw stay.
FillIntensity(values, num_lasers) ==
  [i \in 1..num_lasers |-> IF i <= Len(values) THEN values[i] ELSE 0]

\* Lines 166-208.
ParamCallback(p) ==
  /\ fault = "none"
  /\ LET ranged == RangeViewUpdate(config, p)
         values == IF HasParam(p, "invalid_intensity") THEN p.invalid_intensity ELSE <<>>
     IN  /\ config' = IF HasParam(p, "scan_phase")
                      THEN [ranged EXCEPT !.scan_phase = p.scan_phase]
                      ELSE ranged
         /\ data' = IF DOMAIN p \cap RangeViewNames # {}
                    THEN [ min_range |-> ranged.min_range, max_range |-> ranged.max_range,
                           view_direction |-> ranged.view_direction,
                           view_width |-> ranged.view_width ]
                    ELSE data
         /\ num_points_threshold' = IF HasParam(p, "num_points_threshold")
                                    THEN p.num_points_threshold
                                    ELSE num_points_threshold
         /\ invalid_intensity_array' = FillIntensity(values, NumLasers)
         /\ fault' = IF Len(values) > NumLasers THEN "out_of_range" ELSE "none"
  /\ UNCHANGED << overflow_buffer, subscription, pc, cloudVars, published,
                  historyVars, cycle >>

\* Updates that carry scan_phase alone.
PhaseUpdates == {[scan_phase |-> v] : v \in ScanPhases}

\* ---------------------------------------------------------- specification
\* The steps of one processScan call after its first.
Compose ==
  \/ ValidGate
  \/ PubValid
  \/ PubEx
  \/ InvalidGate
  \/ PubInvalid
  \/ CombinedGate

\* Segmentation: every batch and scan phase. scan_phase is updated between
\* two processScan calls (the node's callbacks share one mutually exclusive
\* callback group); consumers come and go on the combined view, here between
\* two calls only (SpecDemand lets them change at any point of a call).
SegViews == {"combined"}
SubscribeBetweenCalls(v) == pc = "idle" /\ Subscribe(v)
UnsubscribeBetweenCalls(v) == pc = "idle" /\ Unsubscribe(v)
ParamCallbackBetweenCalls(p) == pc = "idle" /\ ParamCallback(p)

Next ==
  \/ \E batch \in Batches, garbage \in GarbageAzimuths, crash \in BOOLEAN,
        garbage_stamp \in GarbageStamps :
        ProcessScanBegin(batch, garbage, crash, garbage_stamp)
  \/ Compose
  \/ \E v \in SegViews : SubscribeBetweenCalls(v)
  \/ \E v \in SegViews : UnsubscribeBetweenCalls(v)
  \/ \E p \in PhaseUpdates : ParamCallbackBetweenCalls(p)

Spec == Init /\ [][Next]_vars

\* Demand: consumers come and go on every view, at any point of a call; the
\* batches are few.
DemandBatches == {<<>>, PointsAt(<<35900, 100>>)}

NextDemand ==
  \/ \E batch \in DemandBatches, garbage \in GarbageAzimuths, crash \in BOOLEAN,
        garbage_stamp \in GarbageStamps :
        ProcessScanBegin(batch, garbage, crash, garbage_stamp)
  \/ Compose
  \/ \E v \in Views : Subscribe(v)
  \/ \E v \in Views : Unsubscribe(v)

SpecDemand == Init /\ [][NextDemand]_vars

\* Reconfiguration: paramCallback runs with partial updates at any point of a
\* processScan call (nothing in the class orders the two); consumers of the
\* valid_extended and combined views appear between two calls.
ReconfViews == {"valid_extended", "combined"}
ReconfPoints ==
  << [azimuth |-> 35800, distance |-> 0, ring |-> 0, intensity |-> 10],
     [azimuth |-> 35900, distance |-> 50, ring |-> 1, intensity |-> 10] >>
ReconfBatches == {ReconfPoints}

\* invalid_intensity arrays shorter than, as long as and longer than the
\* laser count.
ShortIntensity == <<20>>
FullIntensity == [i \in 1..NumLasers |-> 20]
LongIntensity == [i \in 1..(NumLasers + 1) |-> 20]

Updates ==
  { [min_range |-> 100],
    [max_range |-> 40, view_width |-> 3141],
    [num_points_threshold |-> 1],
    [scan_phase |-> 180000],
    [invalid_intensity |-> ShortIntensity],
    [invalid_intensity |-> FullIntensity],
    [invalid_intensity |-> LongIntensity] }

NextReconf ==
  \/ \E batch \in ReconfBatches, garbage \in GarbageAzimuths, crash \in BOOLEAN,
        garbage_stamp \in GarbageStamps :
        ProcessScanBegin(batch, garbage, crash, garbage_stamp)
  \/ Compose
  \/ \E v \in ReconfViews : SubscribeBetweenCalls(v)
  \/ \E p \in Updates : ParamCallback(p)

SpecReconf == Init /\ [][NextReconf]_vars

\* Arithmetic: the node is constructed with a scan_phase of the declared
\* range 0..359 degrees (values around the rounding step, the half-turn and
\* the 15-bit limit) and decodes single points at azimuths around the same
\* limits.
ArithPhases == {0, 4, 5, 1000, 179995, 180000, 327670, 327680, 359000}
ArithAzimuths == {0, 1, 17999, 18000, 32767, 32768, 35899, 35900, 35999}
ArithBatches == {PointsAt(<<a>>) : a \in ArithAzimuths}

InitArith == \E phaseCfg \in ArithPhases : Construct(phaseCfg)

NextArith ==
  \/ \E batch \in ArithBatches, garbage \in GarbageAzimuths, crash \in BOOLEAN,
        garbage_stamp \in GarbageStamps :
        ProcessScanBegin(batch, garbage, crash, garbage_stamp)
  \/ Compose
  \/ \E v \in SegViews : SubscribeBetweenCalls(v)

SpecArith == InitArith /\ [][NextArith]_vars

\* Progress: a consumer of the combined view registers and stays, scan_phase
\* is updated between two calls, a processScan call that has begun runs to
\* its end, and a batch holding a point of diff >= 18000 under the configured
\* phase keeps arriving.
LiveBatches == {PointsAt(<<100, 200>>), PointsAt(<<35900>>), PointsAt(<<35900, 100>>)}
ClosingBatches(phaseCfg) ==
  {batch \in LiveBatches :
     \E i \in 1..Len(batch) :
       (FullTurn + batch[i].azimuth - Phase(phaseCfg)) % FullTurn >= HalfTurn}

ClosingScan ==
  /\ Subscribed(SegmentViews)
  /\ \E batch \in ClosingBatches(config.scan_phase), garbage \in GarbageAzimuths,
        crash \in BOOLEAN, garbage_stamp \in GarbageStamps :
        ProcessScanBegin(batch, garbage, crash, garbage_stamp)

NextLive ==
  \/ \E batch \in LiveBatches, garbage \in GarbageAzimuths, crash \in BOOLEAN,
        garbage_stamp \in GarbageStamps :
        ProcessScanBegin(batch, garbage, crash, garbage_stamp)
  \/ Compose
  \/ \E v \in SegViews : SubscribeBetweenCalls(v)
  \/ \E p \in PhaseUpdates : ParamCallbackBetweenCalls(p)

SpecLive ==
  Init /\ [][NextLive]_vars /\ WF_vars(Compose) /\ WF_vars(ClosingScan)

\* ================================================================== claims
\* The specification's own arithmetic: phase = round(phaseDeg*100) mod 36000
\* and diff(azimuth) = (36000 + azimuth - phase) mod 36000.
SpecPhase(phaseCfg) == RoundHundredths(phaseCfg) % FullTurn
SpecDiff(azimuth, phase) == (FullTurn + azimuth - phase) % FullTurn
CyclePhase == SpecPhase(cycle.phase_cfg)
Deferrable(p) == SpecDiff(p.azimuth, CyclePhase) < HalfTurn

\* C1 (conservation): the bag of all points decoded so far equals the bag of
\* the points of all closed scans so far plus the points held in the
\* carry-over buffer.
C1_Conservation == decoded_all = emitted_all (+) SeqToBag(overflow_buffer)

\* A second cycle has restored a carry-over, closed a scan and deferred again.
C1_Witness ==
  /\ cycles = 2
  /\ cycle.segmented
  /\ Len(cycle.carry_in) > 0
  /\ Len(scan_points) > 0
  /\ Len(overflow_buffer) > 0

\* C2 (segmentation result): with rawPoints the restored carry-over followed
\* by the decoded batch, the new carry-over is the longest suffix of rawPoints
\* whose points all have diff < 18000, stored in reverse order, and the closed
\* scan is the remaining prefix in order.
DeferCount(raw) ==
  CHOOSE k \in 0..Len(raw) :
    /\ \A i \in (Len(raw) - k + 1)..Len(raw) : Deferrable(raw[i])
    /\ k < Len(raw) => ~Deferrable(raw[Len(raw) - k])

C2_SegmentationResult ==
  cycle.segmented =>
    LET raw == cycle.raw_points
        k == DeferCount(raw)
    IN  /\ raw = Reverse(cycle.carry_in) \o cycle.batch
        /\ overflow_buffer = Reverse(SubSeq(raw, Len(raw) - k + 1, Len(raw)))
        /\ scan_points = SubSeq(raw, 1, Len(raw) - k)
        /\ scan_points \o Reverse(overflow_buffer) = raw

\* A working buffer made of carry-over and batch was split in its middle.
C2_Witness ==
  /\ cycle.segmented
  /\ Len(cycle.carry_in) > 0
  /\ Len(cycle.batch) > 1
  /\ Len(scan_points) > 1
  /\ Len(overflow_buffer) > 0

\* C3 (nothing deferred): with phase 0 and an empty carry-over the batch with
\* azimuths 100, 200, 35900, 35950 is closed whole and the carry-over stays
\* empty; in general, when the last point of the working buffer has
\* diff >= 18000 nothing is deferred.
C3_Scenario ==
  /\ cycle.segmented
  /\ cycle.carry_in = <<>>
  /\ cycle.phase_cfg = 0
  /\ Azimuths(cycle.batch) = <<100, 200, 35900, 35950>>

C3_NothingDeferred ==
  /\ C3_Scenario => (scan_points = cycle.batch /\ overflow_buffer = <<>>)
  /\ (cycle.segmented /\ Len(cycle.raw_points) > 0
        /\ ~Deferrable(Last(cycle.raw_points)))
       => (scan_points = cycle.raw_points /\ overflow_buffer = <<>>)

C3_Witness == C3_Scenario /\ Len(scan_points) = 4

\* C4 (phase 180 degrees, batch 100, 200, 17999, 18500, empty carry-over).
C4_Scenario ==
  /\ cycle.segmented
  /\ cycle.carry_in = <<>>
  /\ cycle.phase_cfg = 180000
  /\ Azimuths(cycle.batch) = <<100, 200, 17999, 18500>>

\* C4 as claimed: the closed scan holds all four points and the carry-over
\* is empty.
C4_Original ==
  C4_Scenario => (scan_points = cycle.batch /\ overflow_buffer = <<>>)

\* C4 as amended: the tail point 18500 has diff 500 < 18000 and is deferred;
\* the closed scan is 100, 200, 17999 and the carry-over holds 18500 alone.
C4_Amended ==
  C4_Scenario =>
    /\ Azimuths(scan_points) = <<100, 200, 17999>>
    /\ scan_points = SubSeq(cycle.batch, 1, 3)
    /\ overflow_buffer = << cycle.batch[4] >>

C4_Witness == C4_Scenario /\ Len(overflow_buffer) = 1

\* C5 (phase 180 degrees, batch 17000, 17500, 17900, empty carry-over).
C5_Scenario ==
  /\ cycle.segmented
  /\ cycle.carry_in = <<>>
  /\ cycle.phase_cfg = 180000
  /\ Azimuths(cycle.batch) = <<17000, 17500, 17900>>

\* C5 as claimed: the batch is deferred entirely, the closed scan is empty
\* and the carry-over holds the three points.
C5_Original ==
  C5_Scenario => (scan_points = <<>> /\ Reverse(overflow_buffer) = cycle.batch)

\* C5 as amended: the tail point 17900 has diff 35900 >= 18000, nothing is
\* deferred; the closed scan is the three points in order and the carry-over
\* is empty.
C5_Amended ==
  C5_Scenario =>
    /\ Azimuths(scan_points) = <<17000, 17500, 17900>>
    /\ scan_points = cycle.batch
    /\ overflow_buffer = <<>>

C5_Witness == C5_Scenario /\ Len(scan_points) = 3

\* C6 (idempotent empty input): a segmenting cycle whose decoded batch is
\* empty yields an empty closed scan, leaves the carry-over as it was and
\* raises no error (no read from an empty buffer, no fault).
C6_EmptyBatchIdempotent ==
  (cycle.segmented /\ cycle.batch = <<>>) =>
    /\ scan_points = <<>>
    /\ overflow_buffer = cycle.carry_in
    /\ ~cycle.read_back_empty
    /\ ~cycle.read_front_empty
    /\ fault = "none"

\* C7 (phase contiguity). The decoded stream in decode order:
Stream ==
  [t \in 1..clock |-> CHOOSE p \in DOMAIN decoded_all : p.time_stamp = t]
\* azimuths increase modulo 36000, each step shorter than a half-turn.
Increasing(azimuths) ==
  \A i \in 1..(Len(azimuths) - 1) :
    (FullTurn + azimuths[i + 1] - azimuths[i]) % FullTurn \in 1..(HalfTurn - 1)
\* diff never drops from >= 18000 to a later value < 18000.
NoWrapInside(points) ==
  \A i, j \in 1..Len(points) :
    (i < j /\ ~Deferrable(points[i])) => ~Deferrable(points[j])

\* C7 as claimed: with increasing azimuths no closed scan wraps past the
\* phase boundary.
C7_Original ==
  (cycle.segmented /\ Increasing(Azimuths(Stream))) => NoWrapInside(scan_points)

\* Number of places where the points pass the phase boundary.
Crossings(points) ==
  Cardinality({i \in 1..(Len(points) - 1) :
                 ~Deferrable(points[i]) /\ Deferrable(points[i + 1])})

\* C7 as amended: a non-empty closed scan ends with a point of diff >= 18000
\* (it never ends inside the half-turn that follows the phase boundary), and
\* it does not wrap when the working buffer passes the boundary at most once
\* and ends with a point of diff < 18000.
C7_Amended ==
  cycle.segmented =>
    /\ Len(scan_points) > 0 => ~Deferrable(Last(scan_points))
    /\ (Len(cycle.raw_points) > 0 /\ Crossings(cycle.raw_points) <= 1
          /\ Deferrable(Last(cycle.raw_points)))
         => NoWrapInside(scan_points)

\* An increasing stream whose working buffer passed the boundary once: the
\* points before it were closed, the points after it deferred.
C7_Witness ==
  /\ cycle.segmented
  /\ Increasing(Azimuths(Stream))
  /\ Crossings(cycle.raw_points) = 1
  /\ Len(scan_points) > 0
  /\ Len(overflow_buffer) > 0

\* C8 (carry-over invariant): the carry-over is empty before the first cycle
\* and every point it holds has diff < 18000 for the scan phase used by the
\* cycle that last wrote the buffer.
C8_CarryOverInvariant ==
  /\ cycles = 0 => overflow_buffer = <<>>
  /\ \A i \in 1..Len(overflow_buffer) : Deferrable(overflow_buffer[i])

\* A carry-over that would not qualify under the phase configured since.
C8_Witness ==
  /\ Len(overflow_buffer) > 0
  /\ config.scan_phase # cycle.phase_cfg
  /\ \E i \in 1..Len(overflow_buffer) :
       SpecDiff(overflow_buffer[i].azimuth, SpecPhase(config.scan_phase)) >= HalfTurn

\* C9 (demand gating): in a call during which no view has a consumer, nothing
\* is decoded, no range filter, ring sort or near-invalid filter runs, no
\* view is published and the carry-over buffer is left as it was.
C9_DemandGating ==
  (cycles > 0 /\ ~cycle.ever_demand) =>
    /\ cycle.n_decode = 0
    /\ cycle.n_valid_filter = 0
    /\ cycle.n_sort = 0
    /\ cycle.n_invalid_filter = 0
    /\ published = NoPublication
    /\ overflow_buffer = cycle.carry_in

\* A call without consumers has returned while points were carried over.
C9_Witness ==
  /\ cycles > 0
  /\ ~cycle.ever_demand
  /\ pc = "idle"
  /\ Len(overflow_buffer) > 0

CountIf(condition) == IF condition THEN 1 ELSE 0
\* The filter calls a processScan call owes to the demand it started with.
OwedFilterCalls ==
  /\ cycle.n_valid_filter =
       CountIf(cycle.demand_start \cap {"valid", "valid_extended", "combined"} # {})
  /\ cycle.n_sort =
       CountIf(cycle.demand_start \cap {"invalid_near", "combined"} # {})
  /\ cycle.n_invalid_filter = cycle.n_sort
NoFilterTwice ==
  /\ cycle.n_valid_filter <= 1
  /\ cycle.n_sort <= 1
  /\ cycle.n_invalid_filter <= 1

\* C10 (shared, minimal computation): no filter runs twice in a call; in
\* every call whose demand never changed, once the call is over (returned, or
\* ended by a fault), the range filter has run once if valid, valid_extended
\* or combined had a consumer and never otherwise, and ring sort and
\* near-invalid filter once if invalid_near or combined had a consumer and
\* never otherwise.
C10_SharedMinimal ==
  /\ NoFilterTwice
  /\ (cycles > 0 /\ (pc = "idle" \/ fault # "none") /\ ~cycle.demand_changed)
       => OwedFilterCalls

\* The part of C10 that the code keeps: the same, for the calls that return.
C10_ReturnedCalls ==
  /\ NoFilterTwice
  /\ (cycles > 0 /\ pc = "idle" /\ ~cycle.demand_changed) => OwedFilterCalls

\* Two views that need the range filter, one of them needing the
\* near-invalid filter too: each filter ran once.
C10_ReturnedWitness ==
  /\ cycles > 0
  /\ pc = "idle"
  /\ ~cycle.demand_changed
  /\ cycle.demand_start = {"valid", "combined"}
  /\ cycle.n_valid_filter = 1
  /\ cycle.n_invalid_filter = 1
  /\ Len(published["valid"]) = 1
  /\ Len(published["combined"]) = 1

\* What the filters yield for the closed scan under the parameters in force
\* when the call started.
ValidAtStart ==
  ExtractValidPoints(scan_points, cycle.params_start.min_range, cycle.params_start.max_range)
InvalidNearAtStart ==
  ExtractInvalidNearPointsFiltered(
    SortZeroIndex(scan_points, NumLasers), cycle.params_start.invalid_intensity,
    NumLasers, cycle.params_start.num_points_threshold)
AllPublished(v, points) ==
  \A i \in 1..Len(published[v]) : published[v][i].points = points

\* C11 (snapshot isolation): every view a processScan call publishes is what
\* the filters yield under the configuration in force when the call started,
\* whenever paramCallback runs during the call. (The scan phase is read once,
\* at line 241, so the closed scan and the carry-over are those of the
\* phase in force at that point.)
C11_SnapshotIsolation ==
  (cycles > 0 /\ cycle.segmented) =>
    /\ AllPublished("valid", Convert(ValidAtStart))
    /\ AllPublished("valid_extended", ValidAtStart)
    /\ AllPublished("invalid_near", Convert(InvalidNearAtStart))
    /\ AllPublished("combined", CombinedPoints(ValidAtStart, InvalidNearAtStart))

\* C12 (partial update frame): paramCallback leaves every configuration field
\* that is absent from the update as it was.
Frame(p) ==
  /\ \A name \in {"min_range", "max_range", "view_direction", "view_width", "scan_phase"} :
       ~HasParam(p, name) => config'[name] = config[name]
  /\ ~HasParam(p, "num_points_threshold") => num_points_threshold' = num_points_threshold
  /\ ~HasParam(p, "invalid_intensity") => invalid_intensity_array' = invalid_intensity_array
C12_PartialFrame == [][\A p \in Updates : ParamCallback(p) => Frame(p)]_vars

\* C13 (update application): after paramCallback every one of min_range,
\* max_range, view_direction and view_width present in the update holds the
\* update's value in config_, and the decoder holds the current values.
Applied(p) ==
  /\ \A name \in RangeViewNames \cap DOMAIN p : config'[name] = p[name]
  /\ \A name \in RangeViewNames : data'[name] = config'[name]
C13_UpdateApplied == [][\A p \in Updates : ParamCallback(p) => Applied(p)]_vars

\* C14 (reconfiguration never fails): paramCallback ends without a fault for
\* every update, and leaves an array of numLasers thresholds: the supplied
\* values in the leading rings, zero in the others.
ZeroPadded(p) ==
  LET values == IF HasParam(p, "invalid_intensity") THEN p.invalid_intensity ELSE <<>>
  IN  /\ Len(invalid_intensity_array') = NumLasers
      /\ \A i \in 1..NumLasers :
           invalid_intensity_array'[i] = IF i <= Len(values) THEN values[i] ELSE 0
C14_NeverFails ==
  [][\A p \in Updates : ParamCallback(p) => (fault' = "none" /\ ZeroPadded(p))]_vars

\* C15 (empty closed scan guarded): in a call whose closed scan is empty the
\* first point of the scan is never read and no view is published.
C15_EmptyScanGuarded ==
  (cycle.segmented /\ Len(scan_points) = 0) =>
    /\ ~cycle.read_front_empty
    /\ published = NoPublication

\* C16 (combined view composition): every combined message holds the points
\* of the range-filtered cloud (the valid_extended view) followed by the
\* points of the near-invalid cloud, its width is the sum of the two point
\* counts, its height is 1 and its stamp is the range-filtered cloud's, which
\* is the scan's; a valid_extended message of the same call holds the same
\* leading points and the same stamp.
C16_CombinedComposition ==
  \A i \in 1..Len(published["combined"]) :
    LET m == published["combined"][i]
    IN  /\ m.points = valid_points \o invalid_near_points
        /\ m.width = Len(valid_points) + Len(invalid_near_points)
        /\ m.height = 1
        /\ m.stamp = valid_stamp
        /\ cycle.n_valid_filter = 1 => m.stamp = scan_stamp
        /\ \A j \in 1..Len(published["valid_extended"]) :
             /\ published["valid_extended"][j].stamp = m.stamp
             /\ published["valid_extended"][j].points = SubSeq(m.points, 1, Len(valid_points))
             /\ published["valid_extended"][j].width + Len(invalid_near_points) = m.width

\* Both constituents are non-empty and both views were published.
C16_Witness ==
  /\ Len(published["combined"]) = 1
  /\ Len(published["valid_extended"]) = 1
  /\ Len(valid_points) > 0
  /\ Len(invalid_near_points) > 0

\* C17 (scan metadata): a non-empty closed scan is stamped with the time
\* stamp of its first point, the oldest of the scan and, when points were
\* carried over, the oldest carried-over point; its height is 1 and its
\* width its number of points, the points deferred in this call excluded.
C17_ScanMetadata ==
  (cycle.segmented /\ Len(scan_points) > 0) =>
    /\ scan_stamp = scan_points[1].time_stamp
    /\ \A i \in 1..Len(scan_points) : scan_stamp <= scan_points[i].time_stamp
    /\ Len(cycle.carry_in) > 0 => scan_stamp = Last(cycle.carry_in).time_stamp
    /\ scan_height = 1
    /\ scan_width = Len(scan_points)
    /\ scan_width = Len(cycle.raw_points) - Len(overflow_buffer)

\* A scan that starts with carried-over points, while its tail was deferred.
C17_Witness ==
  /\ cycle.segmented
  /\ Len(cycle.carry_in) > 1
  /\ Len(scan_points) > Len(cycle.carry_in)
  /\ Len(overflow_buffer) > 0
  /\ scan_width = Len(scan_points)

\* C18 (demand snapshot): the views a call publishes are those that had a
\* consumer when the call started, each of them derived from the scan the
\* call decoded and segmented.
C18_DemandSnapshot ==
  cycles > 0 =>
    /\ \A v \in Views : published[v] # <<>> => (v \in cycle.demand_start /\ cycle.segmented)
    /\ (pc = "idle" /\ fault = "none") => \A v \in cycle.demand_start : Len(published[v]) = 1

\* C19 (deferral loop reads): the azimuth of the last point of the working
\* buffer is only read while the buffer is non-empty.
C19_BackReadNonEmpty == ~cycle.read_back_empty

\* C20 (bounded arithmetic): for a scan_phase of 0..359 degrees and azimuths
\* of 0..35999 the 16-bit phase is round(scan_phase*100), which is its own
\* residue modulo 36000, and the 16-bit phase_diff is
\* (36000 + azimuth - phase) mod 36000, within 0..35999; neither conversion
\* to 16 bits changes a value.
ArithmeticExact(phaseCfg, azimuth) ==
  LET rounded == RoundHundredths(phaseCfg)
      phase == Phase(phaseCfg)
      wide == CMod(FullTurn + azimuth - phase, FullTurn)
  IN  /\ phase = rounded
      /\ phase = rounded % FullTurn
      /\ phase = SpecPhase(phaseCfg)
      /\ ToUint16(azimuth) = azimuth
      /\ PhaseDiff(azimuth, phase) = wide
      /\ PhaseDiff(azimuth, phase) = SpecDiff(azimuth, SpecPhase(phaseCfg))
      /\ PhaseDiff(azimuth, phase) \in 0..(FullTurn - 1)

C20_BoundedArithmetic ==
  /\ cycle.segmented =>
       \A i \in 1..Len(cycle.raw_points) :
         ArithmeticExact(cycle.phase_cfg, cycle.raw_points[i].azimuth)
  /\ cycles = 0 =>
       \A degrees \in 0..359, azimuth \in ArithAzimuths :
         ArithmeticExact(degrees * 1000, azimuth)

\* A phase past the 15-bit limit met an azimuth below it and one above it.
C20_Witness ==
  /\ cycle.segmented
  /\ Phase(cycle.phase_cfg) >= Uint16 \div 2
  /\ \E i \in 1..Len(cycle.raw_points) : cycle.raw_points[i].azimuth < Phase(cycle.phase_cfg)
  /\ \E i \in 1..Len(cycle.raw_points) : cycle.raw_points[i].azimuth > Phase(cycle.phase_cfg)

\* The carried-over points of the call, as they stand at the head of the
\* working buffer.
CarriedIn == 1..Len(cycle.carry_in)
InCarryOver(t) == \E i \in 1..Len(overflow_buffer) : overflow_buffer[i].time_stamp = t
InClosedScan(t) == \E i \in 1..Len(scan_points) : scan_points[i].time_stamp = t
Chronological(points) ==
  \A i \in 1..(Len(points) - 1) : points[i].time_stamp < points[i + 1].time_stamp

EmittedWhenClosed ==
  cycle.segmented =>
    /\ SubSeq(cycle.raw_points, 1, Len(cycle.carry_in)) = Reverse(cycle.carry_in)
    /\ Chronological(cycle.raw_points)
    /\ scan_points = SubSeq(cycle.raw_points, 1, Len(scan_points))
    /\ \A i \in CarriedIn :
         LET t == cycle.raw_points[i].time_stamp
             closes == \E j \in i..Len(cycle.raw_points) : ~Deferrable(cycle.raw_points[j])
         IN  /\ closes => (InClosedScan(t) /\ scan_points[i].time_stamp = t /\ ~InCarryOver(t))
             /\ ~closes => (InCarryOver(t) /\ ~InClosedScan(t))

\* The time stamps a run can hand out, and the end of the explored run: the
\* process has ended by a fault or the last explored call has begun.
Stamps == 1..(2 * MaxCycles)
RunOver == fault # "none" \/ cycles = MaxCycles

====
